---- MODULE Spec2Model ----
(***************************************************************************)
(* A model of the two icon generators of typehere.app:                     *)
(*   scripts/generate-icon-preview.py  (the preview icon generator)        *)
(*   scripts/generate-macos-icons.py   (the macOS icon set exporter)       *)
(*                                                                         *)
(* The preview generator is modelled at the pixel level for the content    *)
(* bounding box scan and at the level of image dimensions after it.  The   *)
(* macOS exporter is modelled at the level of image dimensions, paste      *)
(* boxes and the files of the output directory; the pixel values the       *)
(* imaging library computes (Lanczos resampling, alpha blending) are       *)
(* carried as symbolic descriptions of how an image was derived.           *)
(***************************************************************************)
EXTENDS Integers, Sequences, FiniteSets, TLC

VARIABLES
    tool,       \* which program runs: "preview" or "macos"
    pc,         \* the position of the running program
    source,     \* preview: the RGBA source image, with its pixels
    scan,       \* preview: the locals of get_content_bbox's loops
    pv,         \* preview: the locals of process_icon
    written,    \* preview: whether icon-preview.png has been written
    argv,       \* macos: the command line and the state of the source file
    mv,         \* macos: the locals of process_icon
    idx,        \* macos: position of the export loop in MACOS_SIZES
    fs,         \* macos: the output path on disk: its kind and its files
    fs0,        \* macos: fs as it was before the first run (history)
    fsFirst,    \* macos: fs as it was after the first successful run (history)
    run,        \* macos: how many times the program has been started
    called,     \* macos: whether main has called process_icon in this run
    cc,         \* corner: the arguments and locals of average_corner_color
    exit_code,  \* process exit status: -1 while running
    error       \* the exception that ended the run, "" if none

vars == <<tool, pc, source, scan, pv, written, argv, mv, idx, fs, fs0,
          fsFirst, run, called, cc, exit_code, error>>

previewVars == <<source, scan, pv, written>>
macosVars == <<argv, mv, idx, fs, fs0, fsFirst, run, called>>

----------------------------------------------------------------------------
(* Bounds of the model *)

MaxW == 2
MaxH == 2
MaxSrcDim == 2
MaxRuns == 2

Min(a, b) == IF a < b THEN a ELSE b
Max(a, b) == IF a > b THEN a ELSE b

----------------------------------------------------------------------------
(* generate-icon-preview.py *)

\* ICON_SCALE = 0.847, CORNER_RADIUS_PERCENT = 0.225, CONTENT_SCALE = 0.72,
\* kept as exact rationals n/1000; int() of a positive float is its floor.
ICON_SCALE_MILLI == 847
CORNER_RADIUS_PERCENT_MILLI == 225
CONTENT_SCALE_MILLI == 720
TARGET_SIZE == 1024

\* int(n * f) for the module's float constants, f given in thousandths.
IntScale(n, milli) == (n * milli) \div 1000

\* The pixel values the model draws from: smallest near-white opaque pixel,
\* a pixel on the non-background side of both thresholds, and the most
\* opaque pixel that is still classified transparent.
Palette == { <<251, 251, 251, 255>>, <<250, 250, 250, 10>>, <<0, 0, 0, 9>> }

Coords(w, h) == (0 .. w - 1) \X (0 .. h - 1)

NoPixels == [c \in {} |-> <<0, 0, 0, 0>>]
NoImage == [w |-> 0, h |-> 0, px |-> NoPixels]
NoSize == [w |-> 0, h |-> 0]

\* is_transparent with the threshold itself taken as transparent.
is_transparent_le(p) == p[4] <= 10

\* Lines 27-30: the classification of one pixel.
is_white(p) == p[1] > 250 /\ p[2] > 250 /\ p[3] > 250
is_transparent(p) == p[4] < 10
IsContent(p) == ~is_white(p) /\ ~is_transparent(p)

\* The length at which a one pixel wide content no longer scales to one pixel.
ThinLen == IntScale(IntScale(TARGET_SIZE, ICON_SCALE_MILLI), CONTENT_SCALE_MILLI) + 1

ThinDims == { <<1, ThinLen - 1>>, <<1, ThinLen>>, <<ThinLen, 1>> }

\* The source images: every image up to MaxW x MaxH over the palette, and
\* long one pixel wide strokes.
SmallSources ==
    UNION { { [w |-> w, h |-> h, px |-> f] : f \in [Coords(w, h) -> Palette] } :
            <<w, h>> \in (1 .. MaxW) \X (1 .. MaxH) }

ThinSources ==
    { [w |-> d[1], h |-> d[2],
       px |-> [c \in Coords(d[1], d[2]) |-> <<250, 250, 250, 10>>]] : d \in ThinDims }

PreviewSources == SmallSources \cup ThinSources

NoScan == [x |-> 0, y |-> 0, min_x |-> 0, min_y |-> 0, max_x |-> 0, max_y |-> 0]

NoPv == [bbox |-> <<0, 0, 0, 0>>, content |-> NoSize, max_dim |-> 0,
         icon_size |-> 0, margin |-> 0, target_content_size |-> 0,
         new_w |-> 0, new_h |-> 0, content_resized |-> NoSize,
         icon_img |-> NoSize, paste_x |-> 0, paste_y |-> 0,
         corner_radius |-> 0, mask |-> NoSize, result |-> NoSize,
         margin_box |-> <<0, 0, 0, 0>>]

\* Lines 36-39: what get_content_bbox returns once both loops have ended.
BBoxReturn(s, width, height) ==
    IF s.min_x > s.max_x \/ s.min_y > s.max_y
    THEN <<0, 0, width, height>>
    ELSE <<s.min_x, s.min_y, s.max_x + 1, s.max_y + 1>>

\* Lines 43-44, 18-22: the source is opened and get_content_bbox starts.
P_Open ==
    /\ tool = "preview" /\ pc = "open"
    /\ scan' = [x |-> 0, y |-> 0, min_x |-> source.w, min_y |-> source.h,
                max_x |-> 0, max_y |-> 0]
    /\ pc' = "scan"
    /\ UNCHANGED <<cc, tool, source, pv, written, macosVars, exit_code, error>>

\* Lines 24-34: one iteration of the inner loop, rows outermost.
P_ScanPixel ==
    /\ tool = "preview" /\ pc = "scan" /\ scan.y < source.h
    /\ LET p == source.px[<<scan.x, scan.y>>]
           hit == IsContent(p)
           lastInRow == scan.x + 1 = source.w
       IN scan' = [x |-> IF lastInRow THEN 0 ELSE scan.x + 1,
                   y |-> IF lastInRow THEN scan.y + 1 ELSE scan.y,
                   min_x |-> IF hit THEN Min(scan.min_x, scan.x) ELSE scan.min_x,
                   min_y |-> IF hit THEN Min(scan.min_y, scan.y) ELSE scan.min_y,
                   max_x |-> IF hit THEN Max(scan.max_x, scan.x) ELSE scan.max_x,
                   max_y |-> IF hit THEN Max(scan.max_y, scan.y) ELSE scan.max_y]
    /\ UNCHANGED <<cc, tool, pc, source, pv, written, macosVars, exit_code, error>>

\* Lines 36-39, 44: the loops are over; bbox is returned to process_icon.
P_BBox ==
    /\ tool = "preview" /\ pc = "scan" /\ scan.y = source.h
    /\ pv' = [pv EXCEPT !.bbox = BBoxReturn(scan, source.w, source.h)]
    /\ pc' = "crop"
    /\ UNCHANGED <<cc, tool, source, scan, written, macosVars, exit_code, error>>

\* Image.crop(box): the size of the cropped image.
CropSize(box) == [w |-> box[3] - box[1], h |-> box[4] - box[2]]

\* Lines 45-48: content = source.crop(bbox).
P_Crop ==
    /\ tool = "preview" /\ pc = "crop"
    /\ LET content == CropSize(pv.bbox)
       IN pv' = [pv EXCEPT !.content = content,
                           !.max_dim = Max(content.w, content.h)]
    /\ pc' = "scale"
    /\ UNCHANGED <<cc, tool, source, scan, written, macosVars, exit_code, error>>

\* Lines 54-57: int(c * (target_content_size / max_dim)).  The quotient is
\* taken exactly; binary64 agrees with it on every size drawn here (it can
\* fall one short only when max_dim divides c * target_content_size).
ScaledDim(c, target_content_size, max_dim) ==
    (c * target_content_size) \div max_dim

\* Lines 50-57.
P_Scale ==
    /\ tool = "preview" /\ pc = "scale"
    /\ LET icon_size == IntScale(TARGET_SIZE, ICON_SCALE_MILLI)
           target_content_size == IntScale(icon_size, CONTENT_SCALE_MILLI)
       IN pv' = [pv EXCEPT
                   !.icon_size = icon_size,
                   !.margin = (TARGET_SIZE - icon_size) \div 2,
                   !.target_content_size = target_content_size,
                   !.new_w = ScaledDim(pv.content.w, target_content_size, pv.max_dim),
                   !.new_h = ScaledDim(pv.content.h, target_content_size, pv.max_dim)]
    /\ pc' = "resize"
    /\ UNCHANGED <<cc, tool, source, scan, written, macosVars, exit_code, error>>

\* Line 59: Image.resize rejects a size with a dimension below 1
\* ("height and width must be > 0"); nothing catches the ValueError.
P_Resize ==
    /\ tool = "preview" /\ pc = "resize"
    /\ \/ /\ pv.new_w >= 1 /\ pv.new_h >= 1
          /\ pv' = [pv EXCEPT !.content_resized = [w |-> pv.new_w, h |-> pv.new_h]]
          /\ pc' = "compose"
          /\ UNCHANGED <<exit_code, error>>
       \/ /\ pv.new_w < 1 \/ pv.new_h < 1
          /\ pc' = "exit" /\ error' = "ValueError" /\ exit_code' = 1
          /\ UNCHANGED pv
    /\ UNCHANGED <<cc, tool, source, scan, written, macosVars>>

\* Lines 61-64: the white square and the centred paste of the content.
P_Compose ==
    /\ tool = "preview" /\ pc = "compose"
    /\ pv' = [pv EXCEPT
                !.icon_img = [w |-> pv.icon_size, h |-> pv.icon_size],
                !.paste_x = (pv.icon_size - pv.new_w) \div 2,
                !.paste_y = (pv.icon_size - pv.new_h) \div 2]
    /\ pc' = "mask"
    /\ UNCHANGED <<cc, tool, source, scan, written, macosVars, exit_code, error>>

\* Lines 66-72: the rounded mask and the paste onto the transparent result.
P_Mask ==
    /\ tool = "preview" /\ pc = "mask"
    /\ pv' = [pv EXCEPT
                !.corner_radius = IntScale(pv.icon_size, CORNER_RADIUS_PERCENT_MILLI),
                !.mask = [w |-> pv.icon_size, h |-> pv.icon_size],
                !.result = [w |-> TARGET_SIZE, h |-> TARGET_SIZE],
                !.margin_box = <<pv.margin, pv.margin,
                                 pv.margin + pv.icon_size, pv.margin + pv.icon_size>>]
    /\ pc' = "save"
    /\ UNCHANGED <<cc, tool, source, scan, written, macosVars, exit_code, error>>

\* Lines 74-75, 82-84: the PNG is written and the program ends.
P_Save ==
    /\ tool = "preview" /\ pc = "save"
    /\ written' = TRUE
    /\ pc' = "exit" /\ exit_code' = 0
    /\ UNCHANGED <<cc, tool, source, scan, pv, macosVars, error>>

NextPreview ==
    \/ P_Open \/ P_ScanPixel \/ P_BBox \/ P_Crop \/ P_Scale
    \/ P_Resize \/ P_Compose \/ P_Mask \/ P_Save

----------------------------------------------------------------------------
(* generate-macos-icons.py *)

CANVAS_SIZE == 1024
INSET_PX == 128
\* PLATE_RADIUS_FACTOR = 0.22, in hundredths.
PLATE_RADIUS_FACTOR_CENTI == 22
\* create_squircle_mask's supersampling factor.
MASK_SCALE == 4

\* File names and labels are sequences of characters, so that a name can be
\* built from a label and a label can be read back.
\* MACOS_SIZES: (filename suffix, size in px), in the order of the source.
MACOS_SIZES ==
    << 
       <<<<"1", "0", "2", "4", "x", "1", "0", "2", "4">>, 1024>>,
       <<<<"5", "1", "2", "x", "5", "1", "2", "@", "2", "x">>, 1024>>,
       <<<<"5", "1", "2", "x", "5", "1", "2">>, 512>>,
       <<<<"2", "5", "6", "x", "2", "5", "6", "@", "2", "x">>, 512>>,
       <<<<"2", "5", "6", "x", "2", "5", "6">>, 256>>,
       <<<<"1", "2", "8", "x", "1", "2", "8", "@", "2", "x">>, 256>>,
       <<<<"1", "2", "8", "x", "1", "2", "8">>, 128>>,
       <<<<"6", "4", "x", "6", "4", "@", "2", "x">>, 128>>,
       <<<<"6", "4", "x", "6", "4">>, 64>>,
       <<<<"3", "2", "x", "3", "2", "@", "2", "x">>, 64>>,
       <<<<"3", "2", "x", "3", "2">>, 32>>,
       <<<<"1", "6", "x", "1", "6", "@", "2", "x">>, 32>>,
       <<<<"1", "6", "x", "1", "6">>, 16>> >>

IconPrefix == <<"i", "c", "o", "n", "_">>
PngSuffix == <<".", "p", "n", "g">>

\* SizedName with the scale marker of the suffix dropped.
SizedNameNoScale(suffix) ==
    LET ats == { i \in 1 .. Len(suffix) : suffix[i] = "@" }
        n == IF ats = {} THEN Len(suffix) ELSE (CHOOSE i \in ats : TRUE) - 1
    IN IconPrefix \o SubSeq(suffix, 1, n) \o PngSuffix

\* Line 153: f"icon_{suffix}.png".
SizedName(suffix) == IconPrefix \o suffix \o PngSuffix
\* Line 164: "icon.png".
MainName == <<"i", "c", "o", "n">> \o PngSuffix

\* An image: its size and the operations that produced its pixels, each
\* with up to four integer arguments.  The imaging library is deterministic,
\* so two images with the same derivation have the same pixels.
Op(name, a) == [op |-> name, a |-> a]
NoMacImage == [w |-> 0, h |-> 0, ops |-> <<>>]

\* Image.open(path).convert("RGBA").
OpenImage(w, h) == [w |-> w, h |-> h, ops |-> <<Op("open", <<w, h, 0, 0>>)>>]

\* Image.crop(box).
CropImage(img, box) ==
    [w |-> box[3] - box[1], h |-> box[4] - box[2],
     ops |-> Append(img.ops, Op("crop", box))]

\* Image.resize(size, LANCZOS): a copy when the size is already the image's.
ResizeImage(img, w, h) ==
    IF img.w = w /\ img.h = h
    THEN img
    ELSE [w |-> w, h |-> h, ops |-> Append(img.ops, Op("resize", <<w, h, 0, 0>>))]

\* crop_center_square without the crop.
crop_center_square_none(img) == img

\* Lines 73-80.
crop_center_square(img) ==
    IF img.w = img.h
    THEN img
    ELSE LET side == Min(img.w, img.h)
             left == (img.w - side) \div 2
             top == (img.h - side) \div 2
         IN CropImage(img, <<left, top, left + side, top + side>>)

\* Lines 43-70: the mask is drawn at four times the size and scaled down.
create_squircle_mask(size, radius_centi) ==
    LET large_size == size * MASK_SCALE
        corner_radius == (large_size * radius_centi) \div 100
        drawn == [w |-> large_size, h |-> large_size,
                  ops |-> <<Op("rounded_rectangle",
                               <<0, 0, large_size - 1, large_size - 1>>),
                            Op("radius", <<corner_radius, 0, 0, 0>>)>>]
    IN ResizeImage(drawn, size, size)

\* InsetInvalid with the upper limit off by one: half the canvas is accepted.
InsetInvalidOffByOne(inset_px) == inset_px < 0 \/ inset_px * 2 > CANVAS_SIZE

\* Line 127: the condition under which process_icon raises ValueError.
InsetInvalid(inset_px) == inset_px < 0 \/ inset_px * 2 >= CANVAS_SIZE

\* PlateSize with the inset subtracted once.
PlateSizeOneSide(inset_px) == CANVAS_SIZE - inset_px

\* Line 130.
PlateSize(inset_px) == CANVAS_SIZE - (inset_px * 2)

\* Line 145: the destination of the plate on the canvas.
PlateDest(inset_px) == <<inset_px, inset_px>>

\* Image.alpha_composite(im, dest): the box of the canvas that is replaced
\* by the blend; every pixel outside it is left as it was.
CompositeBox(dest, im) == <<dest[1], dest[2], dest[1] + im.w, dest[2] + im.h>>

\* Mkdir without exist_ok: an existing directory raises too.
MkdirNoExistOk(d) ==
    IF d.kind = "absent"
    THEN [ok |-> TRUE, fs |-> [kind |-> "dir", files |-> <<>>]]
    ELSE [ok |-> FALSE, fs |-> d]

\* Line 148: output_dir.mkdir(parents=True, exist_ok=True).  ok is FALSE
\* when the call raises FileExistsError (the path is a regular file).
Mkdir(d) ==
    CASE d.kind = "absent" -> [ok |-> TRUE, fs |-> [kind |-> "dir", files |-> <<>>]]
      [] d.kind = "dir"    -> [ok |-> TRUE, fs |-> d]
      [] OTHER             -> [ok |-> FALSE, fs |-> d]

\* Image.save(path, "PNG"): the file is created or replaced.
WriteFile(d, name, img) == [d EXCEPT !.files = (name :> img) @@ d.files]

\* SizedIcon without the resize.
SizedIconNoResize(canvas, size) == canvas

\* Lines 155-158: the image written for one entry of the table.
SizedIcon(canvas, size) ==
    IF size = CANVAS_SIZE THEN canvas ELSE ResizeImage(canvas, size, size)

\* The inputs of a run of the exporter: the command line and the source file.
SrcDims == (1 .. MaxSrcDim) \cup {CANVAS_SIZE}

SourceFiles ==
    { [state |-> "missing", w |-> 0, h |-> 0],
      [state |-> "garbage", w |-> 0, h |-> 0] }
    \cup { [state |-> "image", w |-> w, h |-> h] : w \in SrcDims, h \in SrcDims }

InsetInputs == { -1, 0, INSET_PX, 140, CANVAS_SIZE \div 2 - 1, CANVAS_SIZE \div 2 }

\* sys.argv[3]: text that int() accepts, with its value, or text it rejects.
InsetArgs ==
    { [numeric |-> TRUE, val |-> v] : v \in InsetInputs }
    \cup { [numeric |-> FALSE, val |-> 0] }

DefaultInsetArg == [numeric |-> TRUE, val |-> INSET_PX]

\* argc is len(sys.argv); the arguments that are not given are not drawn.
Argvs ==
    { [argc |-> 1, src |-> [state |-> "missing", w |-> 0, h |-> 0],
       inset |-> DefaultInsetArg] }
    \cup { [argc |-> n, src |-> f, inset |-> DefaultInsetArg] :
           n \in {2, 3}, f \in SourceFiles }
    \cup { [argc |-> 4, src |-> f, inset |-> a] : f \in SourceFiles, a \in InsetArgs }

StaleImage == [w |-> CANVAS_SIZE, h |-> CANVAS_SIZE,
               ops |-> <<Op("stale", <<0, 0, 0, 0>>)>>]

\* The output path before the first run: absent, an empty directory, a
\* directory that holds an older icon.png and a file of another name, or a
\* regular file.
InitialDirs ==
    { [kind |-> "absent", files |-> <<>>],
      [kind |-> "dir", files |-> <<>>],
      [kind |-> "dir",
       files |-> (MainName :> StaleImage) @@ (<<"n", "o", "t", "e", "s">> :> StaleImage)],
      [kind |-> "file", files |-> <<>>] }

NoFs == [kind |-> "unset", files |-> <<>>]

NoMv == [source |-> NoMacImage, inset_px |-> 0, plate_size |-> 0,
         source_sq |-> NoMacImage, art |-> NoMacImage, plate |-> NoMacImage,
         plate_mask |-> NoMacImage, canvas |-> NoMacImage,
         canvas_box |-> <<0, 0, 0, 0>>]

\* SourceExists without the check.
SourceExistsUnchecked(a) == TRUE

\* Line 186: source_path.exists().
SourceExists(a) == a.src.state # "missing"

\* An uncaught exception ends the interpreter with status 1.
Raise(name) == pc' = "exit" /\ error' = name /\ exit_code' = 1

\* Lines 171-199: main, up to its call of process_icon.
M_Main ==
    /\ tool = "macos" /\ pc = "main"
    /\ \/ /\ argv.argc < 2
          /\ pc' = "exit" /\ exit_code' = 1
          /\ UNCHANGED <<mv, called, error>>
       \/ /\ argv.argc >= 2 /\ ~SourceExists(argv)
          /\ pc' = "exit" /\ exit_code' = 1
          /\ UNCHANGED <<mv, called, error>>
       \/ /\ argv.argc >= 2 /\ SourceExists(argv)
          /\ argv.argc > 3 /\ ~argv.inset.numeric
          /\ Raise("ValueError")
          /\ UNCHANGED <<mv, called>>
       \/ /\ argv.argc >= 2 /\ SourceExists(argv)
          /\ argv.argc > 3 => argv.inset.numeric
          /\ mv' = [mv EXCEPT !.inset_px = IF argv.argc > 3 THEN argv.inset.val
                                           ELSE INSET_PX]
          /\ called' = TRUE
          /\ pc' = "load"
          /\ UNCHANGED <<exit_code, error>>
    /\ UNCHANGED <<cc, tool, previewVars, argv, idx, fs, fs0, fsFirst, run>>

\* Lines 124-125: the source is decoded, or Image.open raises.
M_Load ==
    /\ tool = "macos" /\ pc = "load"
    /\ \/ /\ argv.src.state = "image"
          /\ mv' = [mv EXCEPT !.source = OpenImage(argv.src.w, argv.src.h)]
          /\ pc' = "validate"
          /\ UNCHANGED <<exit_code, error>>
       \/ /\ argv.src.state # "image"
          /\ Raise("UnidentifiedImageError")
          /\ UNCHANGED mv
    /\ UNCHANGED <<cc, tool, previewVars, argv, idx, fs, fs0, fsFirst, run, called>>

\* Lines 127-130.
M_Validate ==
    /\ tool = "macos" /\ pc = "validate"
    /\ \/ /\ InsetInvalid(mv.inset_px)
          /\ Raise("ValueError")
          /\ UNCHANGED mv
       \/ /\ ~InsetInvalid(mv.inset_px)
          /\ mv' = [mv EXCEPT !.plate_size = PlateSize(mv.inset_px)]
          /\ pc' = "crop"
          /\ UNCHANGED <<exit_code, error>>
    /\ UNCHANGED <<cc, tool, previewVars, argv, idx, fs, fs0, fsFirst, run, called>>

\* Lines 132-133.
M_Crop ==
    /\ tool = "macos" /\ pc = "crop"
    /\ LET source_sq == crop_center_square(mv.source)
       IN mv' = [mv EXCEPT !.source_sq = source_sq,
                           !.art = ResizeImage(source_sq, mv.plate_size, mv.plate_size)]
    /\ pc' = "plate"
    /\ UNCHANGED <<cc, tool, previewVars, argv, idx, fs, fs0, fsFirst, run, called,
                   exit_code, error>>

\* Lines 135-137: a plate filled with the corner average, the art over it.
M_Plate ==
    /\ tool = "macos" /\ pc = "plate"
    /\ mv' = [mv EXCEPT !.plate =
                [w |-> mv.plate_size, h |-> mv.plate_size,
                 ops |-> Append(mv.art.ops,
                                Op("over_corner_average", <<0, 0, mv.art.w, mv.art.h>>))]]
    /\ pc' = "mask"
    /\ UNCHANGED <<cc, tool, previewVars, argv, idx, fs, fs0, fsFirst, run, called,
                   exit_code, error>>

\* Lines 139-142: the plate's alpha is multiplied by the squircle mask.
M_Mask ==
    /\ tool = "macos" /\ pc = "mask"
    /\ LET plate_mask == create_squircle_mask(mv.plate_size, PLATE_RADIUS_FACTOR_CENTI)
       IN mv' = [mv EXCEPT
                   !.plate_mask = plate_mask,
                   !.plate = [mv.plate EXCEPT
                                !.ops = Append(mv.plate.ops,
                                               Op("multiply_alpha",
                                                  <<plate_mask.w, plate_mask.h, 0, 0>>))]]
    /\ pc' = "canvas"
    /\ UNCHANGED <<cc, tool, previewVars, argv, idx, fs, fs0, fsFirst, run, called,
                   exit_code, error>>

\* Lines 144-145: the plate is composited onto the transparent canvas.
M_Canvas ==
    /\ tool = "macos" /\ pc = "canvas"
    /\ LET box == CompositeBox(PlateDest(mv.inset_px), mv.plate)
       IN mv' = [mv EXCEPT
                   !.canvas = [w |-> CANVAS_SIZE, h |-> CANVAS_SIZE,
                               ops |-> Append(mv.plate.ops, Op("onto_canvas", box))],
                   !.canvas_box = box]
    /\ pc' = "mkdir"
    /\ UNCHANGED <<cc, tool, previewVars, argv, idx, fs, fs0, fsFirst, run, called,
                   exit_code, error>>

\* Line 148.
M_Mkdir ==
    /\ tool = "macos" /\ pc = "mkdir"
    /\ LET r == Mkdir(fs)
       IN \/ /\ r.ok
             /\ fs' = r.fs
             /\ idx' = 1
             /\ pc' = "export"
             /\ UNCHANGED <<exit_code, error>>
          \/ /\ ~r.ok
             /\ Raise("FileExistsError")
             /\ UNCHANGED <<fs, idx>>
    /\ UNCHANGED <<cc, tool, previewVars, argv, mv, fs0, fsFirst, run, called>>

\* Lines 152-161: one iteration of the export loop.
M_SaveSized ==
    /\ tool = "macos" /\ pc = "export" /\ idx <= Len(MACOS_SIZES)
    /\ LET suffix == MACOS_SIZES[idx][1]
           size == MACOS_SIZES[idx][2]
       IN fs' = WriteFile(fs, SizedName(suffix), SizedIcon(mv.canvas, size))
    /\ idx' = idx + 1
    /\ UNCHANGED <<cc, tool, pc, previewVars, argv, mv, fs0, fsFirst, run, called,
                   exit_code, error>>

\* Lines 164-166: icon.png.
M_SaveMain ==
    /\ tool = "macos" /\ pc = "export" /\ idx > Len(MACOS_SIZES)
    /\ fs' = WriteFile(fs, MainName, mv.canvas)
    /\ pc' = "done"
    /\ UNCHANGED <<cc, tool, previewVars, argv, mv, idx, fs0, fsFirst, run, called,
                   exit_code, error>>

\* Line 168 and the return to the shell with status 0.
M_Done ==
    /\ tool = "macos" /\ pc = "done"
    /\ pc' = "exit" /\ exit_code' = 0
    /\ fsFirst' = IF run = 1 THEN fs ELSE fsFirst
    /\ UNCHANGED <<cc, tool, previewVars, argv, mv, idx, fs, fs0, run, called, error>>

\* The program is started again with the same command line, on the disk as
\* the previous run left it.
M_Rerun ==
    /\ tool = "macos" /\ pc = "exit" /\ run < MaxRuns
    /\ run' = run + 1
    /\ pc' = "main" /\ exit_code' = -1 /\ error' = ""
    /\ mv' = NoMv /\ idx' = 0 /\ called' = FALSE
    /\ UNCHANGED <<cc, tool, previewVars, argv, fs, fs0, fsFirst>>

NextMacos ==
    \/ M_Main \/ M_Load \/ M_Validate \/ M_Crop \/ M_Plate \/ M_Mask \/ M_Canvas
    \/ M_Mkdir \/ M_SaveSized \/ M_SaveMain \/ M_Done \/ M_Rerun

----------------------------------------------------------------------------
(* average_corner_color, generate-macos-icons.py lines 83-110, on images
   with pixels *)

\* Line 83: the defaults of sample_size and alpha_threshold.
SAMPLE_SIZE == 16
ALPHA_THRESHOLD == 12

RECURSIVE SumOver(_, _, _)
\* The sum of channel ch over the pixels of img at the coordinates S.
SumOver(img, S, ch) ==
    IF S = {} THEN 0
    ELSE LET c == CHOOSE c \in S : TRUE
         IN img.px[c][ch] + SumOver(img, S \ {c}, ch)

\* Counted with a strict comparison.
CountedStrict(p, alpha_threshold) == p[4] > alpha_threshold

\* Line 101: whether a sampled pixel enters the sums.
Counted(p, alpha_threshold) == p[4] >= alpha_threshold

\* Lines 86-91: the top left corners of the four sample squares.
Corners(w, h, s) == << <<0, 0>>, <<w - s, 0>>, <<0, h - s>>, <<w - s, h - s>> >>

\* Line 99: the coordinates of img.crop((x, y, x + s, y + s)).
Region(xy, s) == (xy[1] .. xy[1] + s - 1) \X (xy[2] .. xy[2] + s - 1)

\* Lines 107-110.
CornerResult(c) ==
    IF c.count = 0
    THEN <<255, 255, 255, 255>>
    ELSE <<c.r_sum \div c.count, c.g_sum \div c.count, c.b_sum \div c.count, 255>>

\* Pixels on both sides of the alpha threshold, with different colours.
CornerPalette == { <<0, 0, 0, 13>>, <<255, 100, 7, 12>>, <<90, 90, 90, 11>> }

CornerImages ==
    UNION { { [w |-> w, h |-> h, px |-> f] : f \in [Coords(w, h) -> CornerPalette] } :
            <<w, h>> \in (1 .. MaxW) \X (1 .. MaxH) }

\* sample_size as a caller may pass it: one pixel per corner, or the default.
SampleSizes == {1, SAMPLE_SIZE}

NoCc == [sample_size |-> 0, alpha_threshold |-> 0, s |-> 0, k |-> 0,
         r_sum |-> 0, g_sum |-> 0, b_sum |-> 0, count |-> 0,
         result |-> <<0, 0, 0, 0>>]

\* Lines 84-96.
C_Start ==
    /\ tool = "corner" /\ pc = "call"
    /\ cc' = [cc EXCEPT !.s = Min(cc.sample_size, Min(source.w, source.h)), !.k = 1]
    /\ pc' = "corners"
    /\ UNCHANGED <<tool, previewVars, macosVars, exit_code, error>>

\* Lines 98-105: one iteration of the loop over the corners.
C_Corner ==
    /\ tool = "corner" /\ pc = "corners" /\ cc.k <= 4
    /\ LET xy == Corners(source.w, source.h, cc.s)[cc.k]
           hits == { c \in Region(xy, cc.s) : Counted(source.px[c], cc.alpha_threshold) }
       IN cc' = [cc EXCEPT !.r_sum = @ + SumOver(source, hits, 1),
                           !.g_sum = @ + SumOver(source, hits, 2),
                           !.b_sum = @ + SumOver(source, hits, 3),
                           !.count = @ + Cardinality(hits),
                           !.k = @ + 1]
    /\ UNCHANGED <<tool, pc, previewVars, macosVars, exit_code, error>>

\* Lines 107-110.
C_Return ==
    /\ tool = "corner" /\ pc = "corners" /\ cc.k > 4
    /\ cc' = [cc EXCEPT !.result = CornerResult(cc)]
    /\ pc' = "returned"
    /\ UNCHANGED <<tool, previewVars, macosVars, exit_code, error>>

InitCorner ==
    /\ tool = "corner" /\ pc = "call"
    /\ source \in CornerImages
    /\ scan = NoScan /\ pv = NoPv /\ written = FALSE
    /\ argv = [argc |-> 1, src |-> [state |-> "missing", w |-> 0, h |-> 0],
               inset |-> DefaultInsetArg]
    /\ mv = NoMv /\ idx = 0 /\ fs = NoFs /\ fs0 = NoFs /\ fsFirst = NoFs
    /\ run = 1 /\ called = FALSE
    /\ \E ss \in SampleSizes :
          cc = [NoCc EXCEPT !.sample_size = ss, !.alpha_threshold = ALPHA_THRESHOLD]
    /\ exit_code = -1 /\ error = ""

NextCorner == C_Start \/ C_Corner \/ C_Return

SpecCorner == InitCorner /\ [][NextCorner]_vars

----------------------------------------------------------------------------
(* Both programs *)

InitPreview ==
    /\ tool = "preview" /\ pc = "open"
    /\ source \in PreviewSources
    /\ scan = NoScan /\ pv = NoPv /\ written = FALSE
    /\ argv = [argc |-> 1, src |-> [state |-> "missing", w |-> 0, h |-> 0],
               inset |-> DefaultInsetArg]
    /\ mv = NoMv /\ idx = 0 /\ fs = NoFs /\ fs0 = NoFs /\ fsFirst = NoFs
    /\ run = 1 /\ called = FALSE /\ cc = NoCc
    /\ exit_code = -1 /\ error = ""

InitMacos ==
    /\ tool = "macos" /\ pc = "main"
    /\ source = NoImage /\ scan = NoScan /\ pv = NoPv /\ written = FALSE
    /\ argv \in Argvs
    /\ mv = NoMv /\ idx = 0
    /\ fs \in InitialDirs /\ fs0 = fs /\ fsFirst = NoFs
    /\ run = 1 /\ called = FALSE /\ cc = NoCc
    /\ exit_code = -1 /\ error = ""

Init == InitPreview \/ InitMacos

Next == NextPreview \/ NextMacos

Spec == Init /\ [][Next]_vars

----------------------------------------------------------------------------
(* Properties *)

Labels == { MACOS_SIZES[i][1] : i \in 1 .. Len(MACOS_SIZES) }

\* The names the exporter is to write: one per label, and icon.png.
ExpectedNames == { IconPrefix \o l \o PngSuffix : l \in Labels } \cup { MainName }

MacosCalledWithInvalidInset ==
    tool = "macos" /\ called /\ (mv.inset_px < 0 \/ mv.inset_px * 2 >= 1024)

\* C1 (as stated): whenever process_icon has been called with inset_px < 0 or
\* inset_px * 2 >= 1024 and the run has ended, it ended with a ValueError and
\* the output path is as it was before the call.
C1_Original ==
    (MacosCalledWithInvalidInset /\ pc = "exit")
        => (error = "ValueError" /\ fs = fs0)

\* C1 (amended): a call of process_icon with inset_px < 0 or inset_px * 2 >=
\* 1024 never gets past the inset check and leaves the output path as it was
\* before the call; it ends with a ValueError when the source decodes, and
\* with the decoder's error, raised before the inset is looked at, when it
\* does not.
C1_InvalidInsetWritesNothing ==
    MacosCalledWithInvalidInset
        => /\ pc \in {"load", "validate", "exit"}
           /\ fs = fs0
           /\ pc = "exit" =>
                /\ exit_code = 1
                /\ error = IF argv.src.state = "image"
                           THEN "ValueError" ELSE "UnidentifiedImageError"

C1_Witness ==
    /\ tool = "macos" /\ called /\ pc = "exit"
    /\ mv.inset_px = 512 /\ error = "ValueError"
    /\ fs.kind = "absent" /\ fs = fs0

\* C2: after a successful run of the exporter into an absent or empty output
\* directory, the directory holds exactly 14 files: icon_<label>.png for each
\* of the 13 distinct labels of the table, and icon.png.
C2_FourteenFiles ==
    (tool = "macos" /\ pc = "exit" /\ exit_code = 0
     /\ fs0.kind \in {"absent", "dir"} /\ DOMAIN fs0.files = {})
        => /\ fs.kind = "dir"
           /\ DOMAIN fs.files = ExpectedNames
           /\ Cardinality(DOMAIN fs.files) = 14
           /\ Cardinality(Labels) = 13
           /\ Len(MACOS_SIZES) = 13

C2_Witness ==
    /\ tool = "macos" /\ pc = "exit" /\ exit_code = 0 /\ run = 1
    /\ fs0.kind = "absent"
    /\ Cardinality(DOMAIN fs.files) = 14

\* The classification of C3, written from the claim.
ClaimBackground(p) == (p[1] > 250 /\ p[2] > 250 /\ p[3] > 250) \/ p[4] < 10

ClaimContent(img) == { c \in Coords(img.w, img.h) : ~ClaimBackground(img.px[c]) }

Inside(c, box) == box[1] <= c[1] /\ c[1] < box[3] /\ box[2] <= c[2] /\ c[2] < box[4]

\* C3: the box get_content_bbox returns is (min_x, min_y, max_x + 1, max_y + 1)
\* over the pixels that are not background (background: R, G and B all above
\* 250, or A below 10): it contains each of them and each of its four sides
\* touches one, so no smaller rectangle contains them all; with no such pixel
\* it is the full extent (0, 0, width, height).
C3_BBoxMinimal ==
    (tool = "preview" /\ pc \notin {"open", "scan"})
        => LET fg == ClaimContent(source)
               b == pv.bbox
           IN IF fg = {}
              THEN b = <<0, 0, source.w, source.h>>
              ELSE /\ \A c \in fg : Inside(c, b)
                   /\ \E c \in fg : c[1] = b[1]
                   /\ \E c \in fg : c[2] = b[2]
                   /\ \E c \in fg : c[1] = b[3] - 1
                   /\ \E c \in fg : c[2] = b[4] - 1

C3_Witness ==
    /\ tool = "preview" /\ pc = "crop"
    /\ source.w = 2 /\ source.h = 2
    /\ pv.bbox = <<1, 1, 2, 2>>
    /\ source.px[<<0, 0>>] = <<251, 251, 251, 255>>
    /\ source.px[<<1, 0>>] = <<0, 0, 0, 9>>

\* C5: main exits with status 1 when no source argument is given and when the
\* source file does not exist, in both cases without calling process_icon, so
\* that the output path is as it was before the run.
C5_ExitBeforeProcessIcon ==
    (tool = "macos" /\ (argv.argc < 2 \/ argv.src.state = "missing"))
        => /\ ~called
           /\ fs = fs0
           /\ pc \in {"main", "exit"}
           /\ pc = "exit" => (exit_code = 1 /\ error = "")

C5_Witness ==
    /\ tool = "macos" /\ pc = "exit" /\ exit_code = 1
    /\ argv.argc >= 2 /\ argv.src.state = "missing"
    /\ ~called /\ fs = fs0

\* The sampled pixels of C4, one entry per corner square and coordinate.
ClaimSamples(img, s) ==
    { kc \in (1 .. 4) \X Coords(img.w, img.h) :
        LET x0 == IF kc[1] \in {1, 3} THEN 0 ELSE img.w - s
            y0 == IF kc[1] \in {1, 2} THEN 0 ELSE img.h - s
        IN /\ x0 <= kc[2][1] /\ kc[2][1] < x0 + s
           /\ y0 <= kc[2][2] /\ kc[2][2] < y0 + s }

RECURSIVE ClaimSum(_, _, _)
ClaimSum(img, S, ch) ==
    IF S = {} THEN 0
    ELSE LET kc == CHOOSE kc \in S : TRUE
         IN img.px[kc[2]][ch] + ClaimSum(img, S \ {kc}, ch)

\* The floor of the average of each colour channel over the samples S, opaque;
\* opaque white when S is empty.
ClaimAverage(img, S) ==
    IF S = {}
    THEN <<255, 255, 255, 255>>
    ELSE <<ClaimSum(img, S, 1) \div Cardinality(S),
           ClaimSum(img, S, 2) \div Cardinality(S),
           ClaimSum(img, S, 3) \div Cardinality(S), 255>>

ClaimSide == Min(cc.sample_size, Min(source.w, source.h))

\* C4 (as stated): average_corner_color returns the average of the colour
\* channels over the pixels of the four corner squares whose alpha is above
\* 12 (a pixel with alpha 12 is not counted), with alpha 255, and opaque
\* white when there is no such pixel.
C4_Original ==
    (tool = "corner" /\ pc = "returned")
        => cc.result =
             ClaimAverage(source, { kc \in ClaimSamples(source, ClaimSide) :
                                      source.px[kc[2]][4] > 12 })

\* C4 (amended): average_corner_color returns the average of the colour
\* channels over the pixels of the four corner squares whose alpha is at
\* least 12 (a pixel with alpha 12 is counted), with alpha 255, and opaque
\* white when there is no such pixel.
C4_AverageAtLeastThreshold ==
    (tool = "corner" /\ pc = "returned")
        => cc.result =
             ClaimAverage(source, { kc \in ClaimSamples(source, ClaimSide) :
                                      source.px[kc[2]][4] >= 12 })

C4_Witness ==
    /\ tool = "corner" /\ pc = "returned"
    /\ source.w = 2 /\ source.h = 2 /\ cc.sample_size = 1
    /\ source.px[<<0, 0>>][4] = 12 /\ source.px[<<1, 0>>][4] = 13
    /\ source.px[<<0, 1>>][4] = 11 /\ source.px[<<1, 1>>][4] = 11
    /\ cc.count = 2 /\ cc.result = <<127, 50, 3, 255>>

IsSquare(img) == img.w = img.h

\* Whether a local of process_icon has been assigned, by the position reached.
PreviewAfter(stages) == tool = "preview" /\ pc \in stages
MacosAfter(stages) == tool = "macos" /\ pc \in stages

MacosSquares ==
    /\ MacosAfter({"plate", "mask", "canvas", "mkdir", "export", "done"})
         => IsSquare(mv.source_sq) /\ IsSquare(mv.art)
    /\ MacosAfter({"mask", "canvas", "mkdir", "export", "done"}) => IsSquare(mv.plate)
    /\ MacosAfter({"canvas", "mkdir", "export", "done"}) => IsSquare(mv.plate_mask)
    /\ MacosAfter({"mkdir", "export", "done"}) => IsSquare(mv.canvas)

PreviewCanvasSquares ==
    /\ PreviewAfter({"mask", "save"}) => IsSquare(pv.icon_img)
    /\ PreviewAfter({"save"}) => IsSquare(pv.mask) /\ IsSquare(pv.result)
    /\ (tool = "preview" /\ written)
         => IsSquare(pv.icon_img) /\ IsSquare(pv.mask) /\ IsSquare(pv.result)

\* C6 (as stated): every intermediate image of both generators is square: in
\* the preview generator the cropped content and the resized content too, in
\* the macOS generator the centre-cropped source, the artwork, the plate, the
\* mask and the canvas.
C6_Original ==
    /\ MacosSquares
    /\ PreviewCanvasSquares
    /\ PreviewAfter({"scale", "resize", "compose", "mask", "save"})
         => IsSquare(pv.content)
    /\ PreviewAfter({"compose", "mask", "save"}) => IsSquare(pv.content_resized)

\* C6 (amended): in the macOS generator the centre-cropped source, the
\* artwork, the plate, the mask and the canvas are square for every source
\* size; in the preview generator the white icon image, the mask and the
\* result are square, while the cropped content has the size of the content
\* bounding box and the resized content is square when that box is.
C6_SquareImages ==
    /\ MacosSquares
    /\ PreviewCanvasSquares
    /\ PreviewAfter({"scale", "resize", "compose", "mask", "save"})
         => /\ pv.content.w = pv.bbox[3] - pv.bbox[1]
            /\ pv.content.h = pv.bbox[4] - pv.bbox[2]
    /\ PreviewAfter({"compose", "mask", "save"})
         => (IsSquare(pv.content) => IsSquare(pv.content_resized))

C6_Witness ==
    /\ tool = "macos" /\ pc = "mkdir"
    /\ mv.source.w = 1 /\ mv.source.h = 2
    /\ mv.source_sq.w = 1 /\ mv.source_sq.h = 1
    /\ mv.art.w = 768 /\ mv.canvas.w = 1024

\* Coordinates on both sides of every edge of the inset square.
Probes(inset) ==
    { 0, inset - 1, inset, 512, 1023 - inset, 1024 - inset, 1023 } \cap (0 .. 1023)

\* A canvas pixel that the composite of the plate did not replace keeps the
\* fill of line 144, whose alpha is 0.
KeepsTransparentFill(x, y) == ~Inside(<<x, y>>, mv.canvas_box)

\* C7: for a valid inset the plate has side 1024 - 2 * inset_px (768 for 128)
\* and is composited at (inset_px, inset_px): it lies inside the canvas, and
\* every canvas pixel outside [inset_px, 1024 - inset_px) squared has alpha 0.
C7_PlateInsideCanvas ==
    MacosAfter({"mkdir", "export", "done"})
        => LET i == mv.inset_px
           IN /\ 0 <= i /\ i * 2 < 1024
              /\ mv.plate_size = 1024 - 2 * i
              /\ (i = 128 => mv.plate_size = 768)
              /\ mv.plate.w = mv.plate_size /\ mv.plate.h = mv.plate_size
              /\ mv.canvas_box = <<i, i, 1024 - i, 1024 - i>>
              /\ 0 <= mv.canvas_box[1] /\ mv.canvas_box[3] <= mv.canvas.w
              /\ 0 <= mv.canvas_box[2] /\ mv.canvas_box[4] <= mv.canvas.h
              /\ \A x \in Probes(i), y \in Probes(i) :
                    ~(i <= x /\ x < 1024 - i /\ i <= y /\ y < 1024 - i)
                        => KeepsTransparentFill(x, y)

C7_Witness ==
    /\ tool = "macos" /\ pc = "mkdir"
    /\ mv.inset_px = 128 /\ mv.plate_size = 768
    /\ mv.canvas_box = <<128, 128, 896, 896>>
    /\ KeepsTransparentFill(127, 500) /\ ~KeepsTransparentFill(128, 500)

\* C8: a second run of the exporter with the same source, output directory
\* and inset succeeds, and at its end the output directory holds the same
\* files with the same content as after the first run.
C8_SecondRunSame ==
    (tool = "macos" /\ run >= 2 /\ fsFirst.kind # "unset" /\ pc = "exit")
        => exit_code = 0 /\ error = "" /\ fs = fsFirst

C8_Witness ==
    /\ tool = "macos" /\ run = 2 /\ pc = "exit" /\ exit_code = 0
    /\ fsFirst.kind = "dir" /\ fs = fsFirst
    /\ Cardinality(DOMAIN fs.files) >= 14

DigitValue(ch) ==
    CASE ch = "0" -> 0 [] ch = "1" -> 1 [] ch = "2" -> 2 [] ch = "3" -> 3
      [] ch = "4" -> 4 [] ch = "5" -> 5 [] ch = "6" -> 6 [] ch = "7" -> 7
      [] ch = "8" -> 8 [] ch = "9" -> 9 [] OTHER -> -1

RECURSIVE ParseNat(_)
\* The number a sequence of decimal digits writes.
ParseNat(digits) ==
    IF digits = <<>> THEN 0
    ELSE 10 * ParseNat(SubSeq(digits, 1, Len(digits) - 1))
         + DigitValue(digits[Len(digits)])

FirstIndex(seq, ch) ==
    LET at == { i \in 1 .. Len(seq) : seq[i] = ch }
    IN IF at = {} THEN Len(seq) + 1 ELSE CHOOSE i \in at : \A j \in at : i <= j

AllDigits(seq) == seq # <<>> /\ \A i \in 1 .. Len(seq) : DigitValue(seq[i]) >= 0

\* The size a label names: N for NxN, 2N for NxN@2x, -1 for any other text.
LabelSize(label) ==
    LET x == FirstIndex(label, "x")
        at == FirstIndex(label, "@")
        first == SubSeq(label, 1, x - 1)
        second == SubSeq(label, x + 1, at - 1)
        rest == SubSeq(label, at, Len(label))
    IN IF /\ AllDigits(first) /\ AllDigits(second)
          /\ ParseNat(first) = ParseNat(second)
          /\ rest \in { <<>>, <<"@", "2", "x">> }
       THEN ParseNat(first) * (IF rest = <<>> THEN 1 ELSE 2)
       ELSE -1

\* C9: after a successful run, for every entry (label, size) of the table the
\* file icon_<label>.png is a size x size image: the canvas itself, identical
\* to icon.png, when size is 1024, and the canvas resized to size otherwise;
\* and size is N for a label NxN and 2N for a label NxN@2x.
C9_SizedFiles ==
    (tool = "macos" /\ pc = "exit" /\ exit_code = 0)
        => \A i \in 1 .. Len(MACOS_SIZES) :
              LET label == MACOS_SIZES[i][1]
                  size == MACOS_SIZES[i][2]
                  file == fs.files[IconPrefix \o label \o PngSuffix]
                  main == fs.files[MainName]
              IN /\ file.w = size /\ file.h = size
                 /\ main = mv.canvas /\ main.w = 1024 /\ main.h = 1024
                 /\ size = 1024 => file = main
                 /\ size # 1024 =>
                      /\ file.ops = Append(main.ops, Op("resize", <<size, size, 0, 0>>))
                      /\ size < 1024
                 /\ LabelSize(label) = size

C9_Witness ==
    /\ tool = "macos" /\ pc = "exit" /\ exit_code = 0
    /\ fs.files[IconPrefix \o <<"1", "6", "x", "1", "6", "@", "2", "x">> \o PngSuffix].w = 32
    /\ fs.files[IconPrefix \o <<"5", "1", "2", "x", "5", "1", "2", "@", "2", "x">> \o PngSuffix]
         = fs.files[MainName]
    /\ LabelSize(<<"1", "6", "x", "1", "6", "@", "2", "x">>) = 32

\* C10: in the preview generator, for every cropped content of at least one
\* pixel in each dimension, new_w = floor(content_w * T / max_dim) and new_h =
\* floor(content_h * T / max_dim), with T = floor(icon_size * 0.72), are at
\* least 1 and at most icon_size, and the paste offsets are not negative.
C10_Original ==
    /\ (PreviewAfter({"resize", "compose", "mask", "save", "exit"})
        /\ pv.content.w >= 1 /\ pv.content.h >= 1)
         => LET T == (pv.icon_size * 72) \div 100
                m == IF pv.content.w > pv.content.h THEN pv.content.w ELSE pv.content.h
            IN /\ pv.new_w = (pv.content.w * T) \div m
               /\ pv.new_h = (pv.content.h * T) \div m
               /\ 1 <= pv.new_w /\ pv.new_w <= pv.icon_size
               /\ 1 <= pv.new_h /\ pv.new_h <= pv.icon_size
    /\ PreviewAfter({"mask", "save"}) => pv.paste_x >= 0 /\ pv.paste_y >= 0

====
